---- MODULE Spec2Model ----
(***************************************************************************)
(* A model of the event store of the eventsourcing library:                *)
(*   - PythonObjectsStoredEventRepository (the in-memory record manager),  *)
(*     infrastructure/stored_events/python_objects_stored_events.py        *)
(*   - EventStore, infrastructure/event_store.py                           *)
(*   - the Example entity, example/domainmodel.py                          *)
(*                                                                         *)
(* The record manager is modelled at the granularity of the operations on  *)
(* its shared dictionaries, so that two threads calling append can be      *)
(* interleaved (specification Spec); the same steps run to completion in   *)
(* one action give the sequential behaviour (specification SeqSpec).       *)
(*                                                                         *)
(* AggSpec puts clients holding aggregates on top of the event store; the  *)
(* aggregate, its save and the repository follow the design document.      *)
(* ExSpec puts clients holding Example entities on top of it: the entity   *)
(* publishes its events and a persistence subscriber stores them.          *)
(***************************************************************************)
EXTENDS Integers, Sequences, FiniteSets, TLC

(***************************************************************************)
(* Bounds of the model.                                                    *)
(***************************************************************************)
\* Versions of the events offered to the store are 0..MaxVersion.
MaxVersion == 2
\* Number of append calls in one behaviour (it is also the uuid1 clock).
MaxCalls == 3

\* Number of domain events the clients of AggSpec create in one behaviour.
MaxEvents == 4
\* Largest number_of_beats passed to Example.beat_heart.
MaxBeats == 2
\* Largest limit passed to get_entity_events.
MaxLimit == 2
\* Largest page_size passed to EventStore.get_entity_events.
MaxPageSize == 2
\* Largest number of beat_heart calls with number_of_beats <= 0.
MaxEmptyBeats == 2

Entities == {"e1", "e2"}
\* The ids uuid4() gives the aggregates of the clients of AggSpec.
AggregateIds == {"e1"}
\* The entity the concurrent writers of Spec race on.
RacedEntities == {"e1"}
Writers == {"w1", "w2"}
Clients == {"c1", "c2"}
Versions == 0..MaxVersion
Topics == {"Created", "AttributeChanged", "Discarded"}

\* Python's None, for an optional integer (versions, limits, timestamps >= 0).
None == -1

VARIABLES
    repo,       \* the PythonObjectsStoredEventRepository object and its heap
    loc,        \* per writer: the frame of its EventStore.append call
    calls,      \* number of append calls made so far (the uuid1 clock)
    discards,   \* history: entities whose Discarded event has been accepted
    rd,         \* the result of the last read: [id, events]
    agg,        \* per client: its in-memory aggregate and pending events
    published,  \* the batches handed to the publish hook, in order
    ex,         \* per client: its Example entity and the call it is in
    chk,        \* the last event applied or hash-checked, and the outcome
    qry         \* the last query of the stored events, and its results

storeVars == <<repo, loc, calls, discards, rd>>
appVars == <<agg, published, ex, chk, qry>>
vars == <<repo, loc, calls, discards, rd, agg, published, ex, chk, qry>>

(***************************************************************************)
(* Python dictionaries as functions whose domain is the set of keys.       *)
(***************************************************************************)
Put(d, k, v) == [x \in (DOMAIN d) \cup {k} |-> IF x = k THEN v ELSE d[x]]
Del(d, k) == [x \in (DOMAIN d) \ {k} |-> d[x]]
EmptyDict == [x \in {} |-> 0]

(***************************************************************************)
(* Domain events and stored events.  A domain event is keyed by            *)
(* (originator_id, originator_version); EventStore.append reads the        *)
(* version as domain_event.entity_version.  The hash of an event is        *)
(* modelled by the tuple of the hashed fields (a collision-free hash).     *)
(***************************************************************************)
NoHash == <<>>

HashOf(id, version, topic, name, value, previous_hash) ==
    <<id, version, topic, name, value, previous_hash>>

DomainEvent(id, version, topic, name, value, previous_hash) ==
    [originator_id |-> id, originator_version |-> version, topic |-> topic,
     name |-> name, value |-> value, previous_hash |-> previous_hash,
     event_hash |-> HashOf(id, version, topic, name, value, previous_hash)]

\* serialize(): the stored event gets a uuid1 event_id, the entity id and the
\* topic; the other fields of the event go into event_attrs.
Serialize(e, uuid) ==
    [event_id |-> uuid, stored_entity_id |-> e.originator_id,
     event_topic |-> e.topic,
     event_attrs |-> [entity_version |-> e.originator_version,
                      name |-> e.name, value |-> e.value,
                      previous_hash |-> e.previous_hash,
                      event_hash |-> e.event_hash]]

\* deserialize(): the domain event rebuilt from the topic and event_attrs.
Deserialize(s) ==
    [originator_id |-> s.stored_entity_id,
     originator_version |-> s.event_attrs.entity_version,
     topic |-> s.event_topic,
     name |-> s.event_attrs.name, value |-> s.event_attrs.value,
     previous_hash |-> s.event_attrs.previous_hash,
     event_hash |-> s.event_attrs.event_hash]

\* timestamp_from_uuid(): the time at which the uuid1 was made, here the
\* number of the append call that serialized the event.
timestamp_from_uuid(event_id) == event_id

\* stored_event.event_topic.endswith('Discarded')
IsDiscarded(topic) == topic = "Discarded"

(***************************************************************************)
(* PythonObjectsStoredEventRepository.__init__                             *)
(*   by_id                 _by_id: the set of event ids (keys)             *)
(*   by_stored_entity_id   _by_stored_entity_id: id -> list of events      *)
(*   entity_versions       _entity_versions: id -> reference to a dict     *)
(*   dicts                 heap of the inner defaultdicts:                 *)
(*                         version -> reference to an iterator             *)
(*   iters                 heap of the iterators chain([0], cycle([1])):   *)
(*                         TRUE once next() has returned the 0             *)
(***************************************************************************)
RepoInit ==
    [by_id |-> {},
     by_stored_entity_id |-> EmptyDict,
     entity_versions |-> EmptyDict,
     dicts |-> <<>>,
     iters |-> <<>>]

\* The frame of a writer that is not in a call.
Idle ==
    [pc |-> "idle",
     event |-> Serialize(DomainEvent("e1", 0, "Created", "", "", NoHash), 0),
     new_version |-> None, expected_version |-> None,
     versions |-> 0, it |-> 0, popped |-> <<>>, exc |-> "none"]

Raise(r, l, exc) ==
    [r |-> r, l |-> [l EXCEPT !.pc = "raised", !.exc = exc]]

Goto(r, l, pc) == [r |-> r, l |-> [l EXCEPT !.pc = pc]]

(***************************************************************************)
(* EventStore.append: serialize, compute the versions, call the record     *)
(* manager's append.                                                       *)
(***************************************************************************)
\* A variant of ExpectedVersion: the truth test is made on the expected
\* version instead of the new one.
ExpectedVersionFalsy(new_version) ==
    IF new_version - 1 > 0 THEN new_version - 1 ELSE None

ExpectedVersion(new_version) ==
    IF new_version /= 0 THEN new_version - 1 ELSE None

EventStoreAppend(domain_event, uuid) ==
    [Idle EXCEPT !.pc = "versions_get",
                 !.event = Serialize(domain_event, uuid),
                 !.new_version = domain_event.originator_version,
                 !.expected_version =
                     ExpectedVersion(domain_event.originator_version)]

(***************************************************************************)
(* PythonObjectsStoredEventRepository.append, one step per operation on a  *)
(* shared object.  A lookup in a defaultdict that misses calls the Python  *)
(* default factory and then stores its result: the two are separate steps, *)
(* as another thread can run while the factory is executing.               *)
(***************************************************************************)
\* versions = self._entity_versions[stored_entity_id]   (lookup, or factory)
VersionsGet(r, l) ==
    LET id == l.event.stored_entity_id IN
    IF l.new_version = None THEN
        Goto(r, l, IF IsDiscarded(l.event.event_topic)
                   THEN "remove_check" ELSE "index_check")
    ELSE IF id \in DOMAIN r.entity_versions THEN
        Goto(r, [l EXCEPT !.versions = r.entity_versions[id]], "check_expected")
    ELSE
        Goto([r EXCEPT !.dicts = Append(@, EmptyDict)],
             [l EXCEPT !.versions = Len(r.dicts) + 1], "versions_set")

\* defaultdict.__missing__ stores the dict the factory made
VersionsSet(r, l) ==
    Goto([r EXCEPT !.entity_versions =
                       Put(@, l.event.stored_entity_id, l.versions)],
         l, "check_expected")

\* Mutant of CheckExpected: the check of expected_version is left out.
CheckExpectedOmitted(r, l) == Goto(r, l, "iter_get")

\* A variant of CheckExpected: the iterator of new_version is taken and
\* advanced before expected_version is looked for.
CheckExpectedAfterNext(r, l) ==
    IF l.expected_version /= None
       /\ l.expected_version \notin DOMAIN r.dicts[l.versions]
    THEN Raise([r EXCEPT !.iters = Append(@, TRUE),
                         !.dicts[l.versions] =
                             Put(@, l.new_version, Len(r.iters) + 1)],
               l, "ConcurrencyError")
    ELSE Goto(r, l, "iter_get")

\* if expected_version is not None: if expected_version not in versions: raise
CheckExpected(r, l) ==
    IF l.expected_version /= None
       /\ l.expected_version \notin DOMAIN r.dicts[l.versions]
    THEN Raise(r, l, "ConcurrencyError")
    ELSE Goto(r, l, "iter_get")

\* versions[new_version]   (lookup, or factory)
IterGet(r, l) ==
    LET d == r.dicts[l.versions] IN
    IF l.new_version \in DOMAIN d THEN
        Goto(r, [l EXCEPT !.it = d[l.new_version]], "iter_next")
    ELSE
        Goto([r EXCEPT !.iters = Append(@, FALSE)],
             [l EXCEPT !.it = Len(r.iters) + 1], "iter_set")

\* defaultdict.__missing__ stores the iterator the factory made
IterSet(r, l) ==
    Goto([r EXCEPT !.dicts[l.versions] = Put(@, l.new_version, l.it)],
         l, "iter_next")

\* Mutant of IterNext: the value next() returns is not compared with 0.
IterNextUnchecked(r, l) ==
    Goto([r EXCEPT !.iters[l.it] = TRUE], l,
         IF IsDiscarded(l.event.event_topic)
         THEN "remove_check" ELSE "index_check")

\* if next(versions[new_version]) != 0: raise ConcurrencyError
IterNext(r, l) ==
    IF r.iters[l.it]
    THEN Raise(r, l, "ConcurrencyError")
    ELSE Goto([r EXCEPT !.iters[l.it] = TRUE], l,
              IF IsDiscarded(l.event.event_topic)
              THEN "remove_check" ELSE "index_check")

(***************************************************************************)
(* PythonObjectsStoredEventRepository.remove_entity, called by append for  *)
(* a Discarded event.                                                      *)
(***************************************************************************)
\* if stored_entity_id in self._by_stored_entity_id:
RemoveCheck(r, l) ==
    IF l.event.stored_entity_id \in DOMAIN r.by_stored_entity_id
    THEN Goto(r, l, "remove_pop")
    ELSE Goto(r, l, "remove_versions")

\* self._by_stored_entity_id.pop(stored_entity_id)
RemovePop(r, l) ==
    LET id == l.event.stored_entity_id IN
    IF id \notin DOMAIN r.by_stored_entity_id
    THEN Raise(r, l, "KeyError")
    ELSE LET popped == r.by_stored_entity_id[id] IN
         Goto([r EXCEPT !.by_stored_entity_id = Del(@, id)],
              [l EXCEPT !.popped = popped],
              IF popped = <<>> THEN "remove_versions" ELSE "remove_by_id")

\* for stored_event in <popped>: del(self._by_id[stored_event.event_id])
RemoveById(r, l) ==
    LET event_id == Head(l.popped).event_id IN
    IF event_id \notin r.by_id
    THEN Raise(r, l, "KeyError")
    ELSE Goto([r EXCEPT !.by_id = @ \ {event_id}],
              [l EXCEPT !.popped = Tail(@)],
              IF Tail(l.popped) = <<>> THEN "remove_versions" ELSE "remove_by_id")

\* A variant of the step: the version bookkeeping of every entity is dropped.
RemoveVersionsAll(r, l) ==
    LET id == l.event.stored_entity_id IN
    IF id \notin DOMAIN r.entity_versions
    THEN Raise(r, l, "KeyError")
    ELSE Goto([r EXCEPT !.entity_versions = EmptyDict], l, "done")

\* del(self._entity_versions[stored_entity_id])
RemoveVersions(r, l) ==
    LET id == l.event.stored_entity_id IN
    IF id \notin DOMAIN r.entity_versions
    THEN Raise(r, l, "KeyError")
    ELSE Goto([r EXCEPT !.entity_versions = Del(@, id)], l, "done")

(***************************************************************************)
(* PythonObjectsStoredEventRepository.append, the else branch: the event   *)
(* is added to the entity's list and to the index by event id.             *)
(***************************************************************************)
\* if stored_entity_id not in self._by_stored_entity_id:
IndexCheck(r, l) ==
    IF l.event.stored_entity_id \notin DOMAIN r.by_stored_entity_id
    THEN Goto(r, l, "index_new")
    ELSE Goto(r, l, "index_append")

\* self._by_stored_entity_id[stored_entity_id] = []
IndexNew(r, l) ==
    Goto([r EXCEPT !.by_stored_entity_id =
                       Put(@, l.event.stored_entity_id, <<>>)],
         l, "index_append")

\* A variant of IndexAppend: the stored event is put in front of the list.
IndexAppendFirst(r, l) ==
    LET id == l.event.stored_entity_id IN
    IF id \notin DOMAIN r.by_stored_entity_id
    THEN Raise(r, l, "KeyError")
    ELSE Goto([r EXCEPT !.by_stored_entity_id[id] = <<l.event>> \o @],
              l, "index_by_id")

\* self._by_stored_entity_id[stored_entity_id].append(stored_event)
IndexAppend(r, l) ==
    LET id == l.event.stored_entity_id IN
    IF id \notin DOMAIN r.by_stored_entity_id
    THEN Raise(r, l, "KeyError")
    ELSE Goto([r EXCEPT !.by_stored_entity_id[id] = Append(@, l.event)],
              l, "index_by_id")

\* self._by_id[event_id] = stored_event
IndexById(r, l) ==
    Goto([r EXCEPT !.by_id = @ \cup {l.event.event_id}], l, "done")

(***************************************************************************)
(* One step of a call, and a call run to its end without interruption.     *)
(***************************************************************************)
Running(l) == l.pc \notin {"idle", "done", "raised"}
Finished(l) == l.pc \in {"done", "raised"}

StepOf(r, l) ==
    CASE l.pc = "versions_get"    -> VersionsGet(r, l)
      [] l.pc = "versions_set"    -> VersionsSet(r, l)
      [] l.pc = "check_expected"  -> CheckExpected(r, l)
      [] l.pc = "iter_get"        -> IterGet(r, l)
      [] l.pc = "iter_set"        -> IterSet(r, l)
      [] l.pc = "iter_next"       -> IterNext(r, l)
      [] l.pc = "remove_check"    -> RemoveCheck(r, l)
      [] l.pc = "remove_pop"      -> RemovePop(r, l)
      [] l.pc = "remove_by_id"    -> RemoveById(r, l)
      [] l.pc = "remove_versions" -> RemoveVersions(r, l)
      [] l.pc = "index_check"     -> IndexCheck(r, l)
      [] l.pc = "index_new"       -> IndexNew(r, l)
      [] l.pc = "index_append"    -> IndexAppend(r, l)
      [] l.pc = "index_by_id"     -> IndexById(r, l)

RECURSIVE RunToEnd(_, _)
RunToEnd(r, l) ==
    IF Running(l)
    THEN LET n == StepOf(r, l) IN RunToEnd(n.r, n.l)
    ELSE [r |-> r, l |-> l]

\* EventStore.append(domain_event) as one uninterrupted call.
AppendCall(r, domain_event, uuid) ==
    RunToEnd(r, EventStoreAppend(domain_event, uuid))

(***************************************************************************)
(* PythonObjectsStoredEventRepository.get_entity_events                    *)
(***************************************************************************)
Reverse(s) == [i \in 1..Len(s) |-> s[Len(s) + 1 - i]]

\* Python's truth value of an optional timestamp: None and 0 are false.
Truthy(x) == x /= None /\ x /= 0

\* A variant of the loop: a descending query keeps the event whose
\* timestamp equals until_timestamp.
RECURSIVE QueryLoopUntilInclusive(_, _, _, _, _, _, _, _, _)
QueryLoopUntilInclusive(stored_events, i, count, query_results, after_timestamp, until_timestamp, limit, query_ascending, results_ascending) ==
    IF i > Len(stored_events) THEN query_results
    ELSE
    LET event == stored_events[i]
        event_timestamp == timestamp_from_uuid(event.event_id)
        Continue == QueryLoopUntilInclusive(
                        stored_events, i + 1, count, query_results,
                        after_timestamp, until_timestamp, limit,
                        query_ascending, results_ascending)
        appended == Append(query_results, event)
    IN
    IF limit /= None /\ count >= limit THEN query_results
    ELSE IF Truthy(after_timestamp)
            /\ (IF query_ascending
                THEN event_timestamp <= after_timestamp
                ELSE event_timestamp < after_timestamp) THEN Continue
    ELSE IF Truthy(until_timestamp)
            /\ event_timestamp > until_timestamp THEN Continue
    ELSE QueryLoopUntilInclusive(
             stored_events, i + 1, count + 1,
             IF results_ascending /= query_ascending
             THEN Reverse(appended) ELSE appended,
             after_timestamp, until_timestamp, limit,
             query_ascending, results_ascending)

\* A variant of the loop: an ascending query keeps the event whose
\* timestamp equals after_timestamp.
RECURSIVE QueryLoopAfterInclusive(_, _, _, _, _, _, _, _, _)
QueryLoopAfterInclusive(stored_events, i, count, query_results, after_timestamp, until_timestamp, limit, query_ascending, results_ascending) ==
    IF i > Len(stored_events) THEN query_results
    ELSE
    LET event == stored_events[i]
        event_timestamp == timestamp_from_uuid(event.event_id)
        Continue == QueryLoopAfterInclusive(
                        stored_events, i + 1, count, query_results,
                        after_timestamp, until_timestamp, limit,
                        query_ascending, results_ascending)
        appended == Append(query_results, event)
    IN
    IF limit /= None /\ count >= limit THEN query_results
    ELSE IF Truthy(after_timestamp)
            /\ event_timestamp < after_timestamp THEN Continue
    ELSE IF Truthy(until_timestamp)
            /\ (IF query_ascending
                THEN event_timestamp > until_timestamp
                ELSE event_timestamp >= until_timestamp) THEN Continue
    ELSE QueryLoopAfterInclusive(
             stored_events, i + 1, count + 1,
             IF results_ascending /= query_ascending
             THEN Reverse(appended) ELSE appended,
             after_timestamp, until_timestamp, limit,
             query_ascending, results_ascending)

\* The for loop over stored_events, from index i on.
RECURSIVE QueryLoop(_, _, _, _, _, _, _, _, _)
QueryLoop(stored_events, i, count, query_results, after_timestamp, until_timestamp, limit, query_ascending, results_ascending) ==
    IF i > Len(stored_events) THEN query_results
    ELSE
    LET event == stored_events[i]
        event_timestamp == timestamp_from_uuid(event.event_id)
        Continue == QueryLoop(stored_events, i + 1, count, query_results,
                              after_timestamp, until_timestamp, limit,
                              query_ascending, results_ascending)
        appended == Append(query_results, event)
    IN
    IF limit /= None /\ count >= limit THEN query_results
    ELSE IF Truthy(after_timestamp)
            /\ (IF query_ascending
                THEN event_timestamp <= after_timestamp
                ELSE event_timestamp < after_timestamp) THEN Continue
    ELSE IF Truthy(until_timestamp)
            /\ (IF query_ascending
                THEN event_timestamp > until_timestamp
                ELSE event_timestamp >= until_timestamp) THEN Continue
    ELSE QueryLoop(stored_events, i + 1, count + 1,
                   IF results_ascending /= query_ascending
                   THEN Reverse(appended) ELSE appended,
                   after_timestamp, until_timestamp, limit,
                   query_ascending, results_ascending)

\* A variant of get_entity_events: the copy is reversed when the query is
\* ascending instead of when it is descending.
GetEntityEventsInverted(r, stored_entity_id, after, until, limit, query_ascending, results_ascending) ==
    IF stored_entity_id \notin DOMAIN r.by_stored_entity_id THEN <<>>
    ELSE
    LET copy == r.by_stored_entity_id[stored_entity_id]
        stored_events == IF query_ascending THEN Reverse(copy) ELSE copy
        after_timestamp ==
            IF after = None THEN None ELSE timestamp_from_uuid(after)
        until_timestamp ==
            IF until = None THEN None ELSE timestamp_from_uuid(until)
    IN QueryLoop(stored_events, 1, 0, <<>>, after_timestamp, until_timestamp,
                 limit, query_ascending, results_ascending)

GetEntityEvents(r, stored_entity_id, after, until, limit, query_ascending, results_ascending) ==
    IF stored_entity_id \notin DOMAIN r.by_stored_entity_id THEN <<>>
    ELSE
    LET copy == r.by_stored_entity_id[stored_entity_id]
        stored_events == IF query_ascending THEN copy ELSE Reverse(copy)
        after_timestamp ==
            IF after = None THEN None ELSE timestamp_from_uuid(after)
        until_timestamp ==
            IF until = None THEN None ELSE timestamp_from_uuid(until)
    IN QueryLoop(stored_events, 1, 0, <<>>, after_timestamp, until_timestamp,
                 limit, query_ascending, results_ascending)

(***************************************************************************)
(* EventStore.get_entity_events without page_size.                         *)
(***************************************************************************)
MapDeserialize(stored_events) ==
    [i \in 1..Len(stored_events) |-> Deserialize(stored_events[i])]

\* A variant of EventStore.get_entity_events: is_ascending is not passed on
\* to the repository, whose query is then the descending one.
EventStoreGetEntityEventsDescending(r, stored_entity_id, after, until, limit, is_ascending, is_short) ==
    IF is_short
    THEN MapDeserialize(Reverse(
             GetEntityEvents(r, stored_entity_id, after, until, limit,
                             FALSE, FALSE)))
    ELSE MapDeserialize(
             GetEntityEvents(r, stored_entity_id, after, until, limit,
                             FALSE, FALSE))

EventStoreGetEntityEvents(r, stored_entity_id, after, until, limit, is_ascending, is_short) ==
    IF is_short
    THEN MapDeserialize(Reverse(
             GetEntityEvents(r, stored_entity_id, after, until, limit,
                             FALSE, FALSE)))
    ELSE MapDeserialize(
             GetEntityEvents(r, stored_entity_id, after, until, limit,
                             is_ascending, is_ascending))

\* The events of an entity as a plain read returns them, and their versions.
ReadEvents(r, id) ==
    EventStoreGetEntityEvents(r, id, None, None, None, TRUE, FALSE)

VersionsOf(events) == [i \in 1..Len(events) |-> events[i].originator_version]

(***************************************************************************)
(* EventStore.get_entity_events with page_size.  The stream returned by    *)
(* iterate_entity_events asks the repository for one page after the other: *)
(* each page is a get_entity_events call limited to page_size (and to what *)
(* is left of limit), the position of the last event of a page becomes the *)
(* after bound (ascending) or the until bound (descending) of the next     *)
(* page, and the stream ends with the first page that is not full.         *)
(***************************************************************************)
RECURSIVE IterateEntityEvents(_, _, _, _, _, _, _, _)
IterateEntityEvents(r, stored_entity_id, after, until, limit, is_ascending, page_size, yielded) ==
    LET left == IF limit = None THEN page_size ELSE limit - Len(yielded)
        page_limit == IF left < page_size THEN left ELSE page_size
        page == GetEntityEvents(r, stored_entity_id, after, until,
                                page_limit, is_ascending, is_ascending)
        last == page[Len(page)].event_id
    IN
    IF page_limit <= 0 THEN yielded
    ELSE IF Len(page) /= page_size THEN yielded \o page
    ELSE IterateEntityEvents(r, stored_entity_id,
                             IF is_ascending THEN last ELSE after,
                             IF is_ascending THEN until ELSE last,
                             limit, is_ascending, page_size, yielded \o page)

\* A variant of EventStore.get_entity_events: limit is not passed on to
\* iterate_entity_events.
EventStoreGetEntityEventsPagedUnlimited(r, stored_entity_id, after, until, limit, is_ascending, page_size, is_short) ==
    IF page_size /= None /\ page_size /= 0
    THEN MapDeserialize(
             IterateEntityEvents(r, stored_entity_id, after, until, None,
                                 is_ascending, page_size, <<>>))
    ELSE EventStoreGetEntityEvents(r, stored_entity_id, after, until, limit,
                                   is_ascending, is_short)

\* EventStore.get_entity_events with all its parameters: if page_size: ...
EventStoreGetEntityEventsPaged(r, stored_entity_id, after, until, limit, is_ascending, page_size, is_short) ==
    IF page_size /= None /\ page_size /= 0
    THEN MapDeserialize(
             IterateEntityEvents(r, stored_entity_id, after, until, limit,
                                 is_ascending, page_size, <<>>))
    ELSE EventStoreGetEntityEvents(r, stored_entity_id, after, until, limit,
                                   is_ascending, is_short)

(***************************************************************************)
(* The aggregate: event model, mutators and repository.  An aggregate's    *)
(* version is the number of events applied to it, so the event that is     *)
(* triggered at version n carries originator_version n.                    *)
(***************************************************************************)
AttributeValues == {"bar"}

NoState ==
    [live |-> FALSE, id |-> "e1", version |-> 0, foo |-> "", examples |-> 0,
     is_discarded |-> FALSE, head_hash |-> NoHash]

\* A variant of check_hash: the payload (name and value) is left out of the
\* recomputed hash.
CheckHashWithoutPayload(e) ==
    /\ Len(e.event_hash) = 6
    /\ e.event_hash[1] = e.originator_id
    /\ e.event_hash[2] = e.originator_version
    /\ e.event_hash[3] = e.topic
    /\ e.event_hash[6] = e.previous_hash

\* check_hash(event): the hash recomputed over the event's fields.
CheckHash(e) ==
    e.event_hash = HashOf(e.originator_id, e.originator_version, e.topic,
                          e.name, e.value, e.previous_hash)

\* The change of state an event makes, by its topic.
MutateFields(e, state) ==
    CASE e.topic = "Created" ->
             [NoState EXCEPT !.live = TRUE, !.id = e.originator_id,
                             !.foo = e.value]
      [] e.topic = "AttributeChanged" -> [state EXCEPT !.foo = e.value]
      [] e.topic = "ExampleCreated" -> [state EXCEPT !.examples = @ + 1]
      [] e.topic = "Discarded" -> [state EXCEPT !.is_discarded = TRUE]

\* A variant of Mutate: previous_hash is not compared with the head hash.
MutateUnverified(e, state) ==
    [error |-> "none",
     state |-> [MutateFields(e, state) EXCEPT
                   !.head_hash = e.event_hash,
                   !.version = state.version + 1]]

\* apply(event, state): the head hash is verified, the state is mutated,
\* head_hash becomes the event's hash and the version grows by one.
Mutate(e, state) ==
    IF e.topic /= "Created" /\ e.previous_hash /= state.head_hash
    THEN [error |-> "HeadHashError", state |-> state]
    ELSE [error |-> "none",
          state |-> [MutateFields(e, state) EXCEPT
                        !.head_hash = e.event_hash,
                        !.version = state.version + 1]]

\* The left fold of events[i..] through their mutators, each event's hash
\* checked first.
RECURSIVE FoldEvents(_, _, _)
FoldEvents(events, i, state) ==
    IF i > Len(events) THEN [error |-> "none", state |-> state]
    ELSE IF ~CheckHash(events[i])
    THEN [error |-> "EventHashError", state |-> state]
    ELSE LET m == Mutate(events[i], state) IN
         IF m.error /= "none" THEN m ELSE FoldEvents(events, i + 1, m.state)

\* Repository.get(id)
RepositoryGet(r, id) ==
    LET events == ReadEvents(r, id) IN
    IF events = <<>> \/ events[1].topic /= "Created"
    THEN [error |-> "RepositoryKeyError", state |-> NoState]
    ELSE LET f == FoldEvents(events, 1, NoState) IN
         IF f.error = "none" /\ f.state.is_discarded
         THEN [error |-> "RepositoryKeyError", state |-> NoState]
         ELSE f

\* Repository.contains(id)
RepositoryContains(r, id) == RepositoryGet(r, id).error = "none"

\* A client without an aggregate.
\* error is the exception the client's last save or trigger raised; saved is
\* the state the aggregate had when it was last saved or loaded.
NoAggregate ==
    [state |-> NoState, pending |-> <<>>, saving |-> FALSE, pos |-> 0,
     error |-> "none", saved |-> NoState]

\* create(): a Created event is built and applied, and enqueued.
CreateAggregate(id) ==
    LET e == DomainEvent(id, 0, "Created", "foo", "", NoHash) IN
    [NoAggregate EXCEPT !.state = Mutate(e, NoState).state,
                        !.pending = <<e>>]

\* trigger_event(variant, payload): rejected on a discarded aggregate;
\* otherwise the event is built on the head hash, applied and enqueued.
TriggerEvent(a, topic, name, value) ==
    IF a.state.is_discarded
    THEN [a EXCEPT !.error = "AssertionError"]
    ELSE LET e == DomainEvent(a.state.id, a.state.version, topic, name, value,
                              a.state.head_hash)
             m == Mutate(e, a.state)
         IN IF m.error /= "none"
            THEN [a EXCEPT !.error = m.error]
            ELSE [a EXCEPT !.state = m.state, !.pending = Append(@, e)]

(***************************************************************************)
(* The Example entity of example/domainmodel.py.  Its attributes a and b   *)
(* behave as foo does and are left out.  pc is the position of the client  *)
(* in its call; events is the local list of beat_heart; queue holds the    *)
(* events the publish hook has handed to the persistence subscriber.       *)
(***************************************************************************)
NoExample ==
    [live |-> FALSE, id |-> "e1", version |-> 0, foo |-> "",
     count_heartbeats |-> 0, is_discarded |-> FALSE, pc |-> "idle",
     events |-> <<>>, queue |-> <<>>, error |-> "none"]

\* A variant of heartbeat_mutator without self._increment_version().
heartbeat_mutator_unversioned(x, event) ==
    [x EXCEPT !.count_heartbeats = @ + 1]

\* heartbeat_mutator(self, event)
heartbeat_mutator(x, event) ==
    [x EXCEPT !.count_heartbeats = @ + 1, !.version = @ + 1]

\* A variant of the loop: each event is put in front of the list.
RECURSIVE BeatLoopPrepending(_, _)
BeatLoopPrepending(x, number_of_beats) ==
    IF number_of_beats > 0
    THEN LET event == DomainEvent(x.id, x.version, "Heartbeat", "", "",
                                  NoHash)
         IN BeatLoopPrepending([heartbeat_mutator(x, event) EXCEPT
                                    !.events = <<event>> \o x.events],
                               number_of_beats - 1)
    ELSE x

\* The while loop of beat_heart.
RECURSIVE BeatLoop(_, _)
BeatLoop(x, number_of_beats) ==
    IF number_of_beats > 0
    THEN LET event == DomainEvent(x.id, x.version, "Heartbeat", "", "",
                                  NoHash)
         IN BeatLoop([heartbeat_mutator(x, event) EXCEPT
                          !.events = Append(x.events, event)],
                     number_of_beats - 1)
    ELSE x

\* A variant of beat_heart without _assert_not_discarded().
beat_heart_unasserted(x, number_of_beats) ==
    [BeatLoop([x EXCEPT !.events = <<>>, !.error = "none"],
              number_of_beats) EXCEPT !.pc = "publish"]

\* Example.beat_heart(number_of_beats), up to its call of publish.
beat_heart(x, number_of_beats) ==
    IF x.is_discarded
    THEN [x EXCEPT !.error = "AssertionError"]
    ELSE [BeatLoop([x EXCEPT !.events = <<>>, !.error = "none"],
                   number_of_beats) EXCEPT !.pc = "publish"]

\* entity.discard(), up to its call of publish: a Discarded event is applied.
discard_example(x) ==
    IF x.is_discarded
    THEN [x EXCEPT !.error = "AssertionError"]
    ELSE LET event == DomainEvent(x.id, x.version, "Discarded", "", "",
                                  NoHash)
         IN [x EXCEPT !.is_discarded = TRUE, !.version = @ + 1,
                      !.events = <<event>>, !.error = "none",
                      !.pc = "publish"]

\* create_new_example(foo), up to its call of publish.
create_new_example(entity_id, foo) ==
    LET event == DomainEvent(entity_id, 0, "Created", "foo", foo, NoHash) IN
    [NoExample EXCEPT !.live = TRUE, !.id = entity_id, !.version = 1,
                      !.foo = foo, !.events = <<event>>, !.pc = "publish"]

\* A variant of publish: the entity writes its first event to the event
\* store itself, and nothing is handed to the hook.
publish_bypassed(r, pub, x) ==
    [r |-> AppendCall(r, x.events[1], Cardinality(r.by_id) + 1).r,
     published |-> pub,
     x |-> [x EXCEPT !.pc = "idle"]]

\* publish(events): the events are handed to the subscribers of the hook.
\* Nothing is written to the event store r.
publish(r, pub, x) ==
    [r |-> r,
     published |-> Append(pub, x.events),
     x |-> [x EXCEPT !.pc = IF x.events = <<>> THEN "idle" ELSE "policy",
                     !.queue = x.events]]

\* The persistence subscriber appends the next event it was handed; an
\* exception of the append ends the entity's call.
PolicyStore(r, x, uuid) ==
    LET n == AppendCall(r, Head(x.queue), uuid) IN
    IF n.l.exc /= "none"
    THEN [r |-> n.r,
          x |-> [x EXCEPT !.pc = "idle", !.queue = <<>>, !.error = n.l.exc]]
    ELSE [r |-> n.r,
          x |-> [x EXCEPT !.queue = Tail(@),
                          !.pc = IF Len(x.queue) = 1 THEN "idle"
                                 ELSE "policy"]]

\* The entity replayed from its stored events.
ExampleGet(r, id) ==
    LET events == ReadEvents(r, id) IN
    [NoExample EXCEPT
        !.live = events /= <<>>,
        !.id = id,
        !.version = Len(events),
        !.foo = IF events = <<>> THEN "" ELSE events[1].value,
        !.count_heartbeats =
            Cardinality({i \in 1..Len(events) :
                            events[i].topic = "Heartbeat"})]

\* No event has been applied or checked yet.
NoCheck ==
    [kind |-> "none", event |-> DomainEvent("e1", 0, "Created", "", "", NoHash),
     tampered |-> "none", before |-> NoState, after |-> NoState,
     error |-> "none"]

\* No query has been made yet.
NoQuery ==
    [id |-> "e1", after |-> None, until |-> None, limit |-> None,
     query_ascending |-> TRUE, results_ascending |-> TRUE,
     page_size |-> None, is_short |-> FALSE, kind |-> "none",
     stored |-> <<>>, results |-> <<>>]

(***************************************************************************)
(* The state after construction.                                           *)
(***************************************************************************)
NoRead == [id |-> "e1", events |-> <<>>]

Init ==
    /\ repo = RepoInit
    /\ loc = [w \in Writers |-> Idle]
    /\ calls = 0
    /\ discards = {}
    /\ rd = NoRead
    /\ agg = [c \in Clients |-> NoAggregate]
    /\ published = <<>>
    /\ ex = [c \in Clients |-> NoExample]
    /\ chk = NoCheck
    /\ qry = NoQuery

\* The domain events a caller hands to EventStore.append: an entity's event
\* of version 0 is its Created event, and no later event is.
TopicsAt(v) == IF v = 0 THEN {"Created"} ELSE Topics \ {"Created"}

OfferedEvents ==
    UNION {{DomainEvent(id, v, topic, "", "", NoHash) :
               id \in Entities, topic \in TopicsAt(v)} : v \in Versions}

\* The domain events the concurrent writers hand to EventStore.append.
RacedEvents == {e \in OfferedEvents : e.originator_id \in RacedEntities}

\* History: a Discarded event counts as accepted when its append returns.
Accepted(l) == l.pc = "done" /\ IsDiscarded(l.event.event_topic)

DiscardsAfter(l) ==
    IF Accepted(l) THEN discards \cup {l.event.stored_entity_id} ELSE discards

(***************************************************************************)
(* Actions of the threads that call EventStore.append concurrently.        *)
(***************************************************************************)
Call(w) ==
    /\ loc[w].pc = "idle"
    /\ calls < MaxCalls
    /\ \E e \in RacedEvents :
           loc' = [loc EXCEPT ![w] = EventStoreAppend(e, calls + 1)]
    /\ calls' = calls + 1
    /\ UNCHANGED <<repo, discards, rd>>
    /\ UNCHANGED appVars

\* The writer w has taken the step whose result is n.
Step(w, n) ==
    /\ repo' = n.r
    /\ loc' = [loc EXCEPT ![w] = n.l]
    /\ discards' = DiscardsAfter(n.l)

VersionsGetStep(w) ==
    /\ loc[w].pc = "versions_get"
    /\ Step(w, VersionsGet(repo, loc[w]))
    /\ UNCHANGED <<calls, rd>>
    /\ UNCHANGED appVars

VersionsSetStep(w) ==
    /\ loc[w].pc = "versions_set"
    /\ Step(w, VersionsSet(repo, loc[w]))
    /\ UNCHANGED <<calls, rd>>
    /\ UNCHANGED appVars

CheckExpectedStep(w) ==
    /\ loc[w].pc = "check_expected"
    /\ Step(w, CheckExpected(repo, loc[w]))
    /\ UNCHANGED <<calls, rd>>
    /\ UNCHANGED appVars

IterGetStep(w) ==
    /\ loc[w].pc = "iter_get"
    /\ Step(w, IterGet(repo, loc[w]))
    /\ UNCHANGED <<calls, rd>>
    /\ UNCHANGED appVars

IterSetStep(w) ==
    /\ loc[w].pc = "iter_set"
    /\ Step(w, IterSet(repo, loc[w]))
    /\ UNCHANGED <<calls, rd>>
    /\ UNCHANGED appVars

IterNextStep(w) ==
    /\ loc[w].pc = "iter_next"
    /\ Step(w, IterNext(repo, loc[w]))
    /\ UNCHANGED <<calls, rd>>
    /\ UNCHANGED appVars

RemoveCheckStep(w) ==
    /\ loc[w].pc = "remove_check"
    /\ Step(w, RemoveCheck(repo, loc[w]))
    /\ UNCHANGED <<calls, rd>>
    /\ UNCHANGED appVars

RemovePopStep(w) ==
    /\ loc[w].pc = "remove_pop"
    /\ Step(w, RemovePop(repo, loc[w]))
    /\ UNCHANGED <<calls, rd>>
    /\ UNCHANGED appVars

RemoveByIdStep(w) ==
    /\ loc[w].pc = "remove_by_id"
    /\ Step(w, RemoveById(repo, loc[w]))
    /\ UNCHANGED <<calls, rd>>
    /\ UNCHANGED appVars

RemoveVersionsStep(w) ==
    /\ loc[w].pc = "remove_versions"
    /\ Step(w, RemoveVersions(repo, loc[w]))
    /\ UNCHANGED <<calls, rd>>
    /\ UNCHANGED appVars

IndexCheckStep(w) ==
    /\ loc[w].pc = "index_check"
    /\ Step(w, IndexCheck(repo, loc[w]))
    /\ UNCHANGED <<calls, rd>>
    /\ UNCHANGED appVars

IndexNewStep(w) ==
    /\ loc[w].pc = "index_new"
    /\ Step(w, IndexNew(repo, loc[w]))
    /\ UNCHANGED <<calls, rd>>
    /\ UNCHANGED appVars

IndexAppendStep(w) ==
    /\ loc[w].pc = "index_append"
    /\ Step(w, IndexAppend(repo, loc[w]))
    /\ UNCHANGED <<calls, rd>>
    /\ UNCHANGED appVars

IndexByIdStep(w) ==
    /\ loc[w].pc = "index_by_id"
    /\ Step(w, IndexById(repo, loc[w]))
    /\ UNCHANGED <<calls, rd>>
    /\ UNCHANGED appVars

\* The caller takes the result (the return, or the exception).
Return(w) ==
    /\ Finished(loc[w])
    /\ loc' = [loc EXCEPT ![w] = Idle]
    /\ UNCHANGED <<repo, calls, discards, rd>>
    /\ UNCHANGED appVars

\* A reader calls EventStore.get_entity_events(id).
Read(id) ==
    /\ rd' = [id |-> id, events |-> ReadEvents(repo, id)]
    /\ UNCHANGED <<repo, loc, calls, discards>>
    /\ UNCHANGED appVars

Next ==
    \/ \E w \in Writers :
          \/ Call(w)
          \/ VersionsGetStep(w)
          \/ VersionsSetStep(w)
          \/ CheckExpectedStep(w)
          \/ IterGetStep(w)
          \/ IterSetStep(w)
          \/ IterNextStep(w)
          \/ RemoveCheckStep(w)
          \/ RemovePopStep(w)
          \/ RemoveByIdStep(w)
          \/ RemoveVersionsStep(w)
          \/ IndexCheckStep(w)
          \/ IndexNewStep(w)
          \/ IndexAppendStep(w)
          \/ IndexByIdStep(w)
          \/ Return(w)
    \/ \E id \in RacedEntities : Read(id)

Spec == Init /\ [][Next]_vars

(***************************************************************************)
(* Sequential use: every call of EventStore.append runs to its end before  *)
(* the next call starts.                                                   *)
(***************************************************************************)
SeqAppend(w) ==
    /\ calls < MaxCalls
    /\ \E e \in OfferedEvents :
           LET n == AppendCall(repo, e, calls + 1) IN
           /\ repo' = n.r
           /\ loc' = [loc EXCEPT ![w] = n.l]
           /\ discards' = DiscardsAfter(n.l)
    /\ calls' = calls + 1
    /\ UNCHANGED rd
    /\ UNCHANGED appVars

SeqNext ==
    \/ \E w \in Writers : SeqAppend(w)
    \/ \E id \in Entities : Read(id)

SeqSpec == Init /\ [][SeqNext]_vars

(***************************************************************************)
(* Queries of the stored events of an entity: events are appended one call *)
(* at a time, and get_entity_events is called with every combination of    *)
(* bounds, limit and directions.  The bounds are event ids (uuid1) of      *)
(* events appended so far or offered next; the query keeps the copy of the *)
(* entity's list it was answered from.                                     *)
(***************************************************************************)
QueryBounds == {None} \cup (1..MaxCalls)
QueryLimits == {None} \cup (0..MaxLimit)

StoredList(r, id) ==
    IF id \in DOMAIN r.by_stored_entity_id THEN r.by_stored_entity_id[id]
    ELSE <<>>

\* An event is appended to the raced entity (the call has returned, its
\* frame is gone).
QueryAppend ==
    /\ qry.kind = "none"
    /\ calls < MaxCalls
    /\ \E e \in RacedEvents :
           LET n == AppendCall(repo, e, calls + 1) IN
           /\ repo' = n.r
           /\ discards' = DiscardsAfter(n.l)
    /\ calls' = calls + 1
    /\ UNCHANGED <<loc, rd>>
    /\ UNCHANGED appVars

\* PythonObjectsStoredEventRepository.get_entity_events(...): the one query
\* of a behaviour, made of the history appended so far.
Query(id) ==
    /\ qry.kind = "none"
    /\ \E after \in QueryBounds, until \in QueryBounds, limit \in QueryLimits,
          query_ascending \in BOOLEAN, results_ascending \in BOOLEAN :
          qry' = [NoQuery EXCEPT
                     !.kind = "repo", !.id = id,
                     !.after = after, !.until = until, !.limit = limit,
                     !.query_ascending = query_ascending,
                     !.results_ascending = results_ascending,
                     !.stored = StoredList(repo, id),
                     !.results = GetEntityEvents(repo, id, after, until,
                                                 limit, query_ascending,
                                                 results_ascending)]
    /\ UNCHANGED <<storeVars, agg, published, ex, chk>>

\* EventStore.get_entity_events(..., page_size=page_size): the one query of
\* a behaviour, read to the end of the stream.
PageSizes == 1..MaxPageSize

PagedQuery(id) ==
    /\ qry.kind = "none"
    /\ \E after \in QueryBounds, until \in QueryBounds, limit \in QueryLimits,
          is_ascending \in BOOLEAN, page_size \in PageSizes,
          is_short \in BOOLEAN :
          qry' = [NoQuery EXCEPT
                     !.kind = "paged", !.id = id,
                     !.after = after, !.until = until, !.limit = limit,
                     !.query_ascending = is_ascending,
                     !.results_ascending = is_ascending,
                     !.page_size = page_size, !.is_short = is_short,
                     !.stored = StoredList(repo, id),
                     !.results = EventStoreGetEntityEventsPaged(
                                     repo, id, after, until, limit,
                                     is_ascending, page_size, is_short)]
    /\ UNCHANGED <<storeVars, agg, published, ex, chk>>

\* EventStore.get_entity_events(..., is_short=True) without page_size: the
\* one query of a behaviour.
ShortQuery(id) ==
    /\ qry.kind = "none"
    /\ \E after \in QueryBounds, until \in QueryBounds, limit \in QueryLimits,
          is_ascending \in BOOLEAN :
          qry' = [NoQuery EXCEPT
                     !.kind = "short", !.id = id,
                     !.after = after, !.until = until, !.limit = limit,
                     !.query_ascending = is_ascending,
                     !.results_ascending = is_ascending,
                     !.is_short = TRUE,
                     !.stored = StoredList(repo, id),
                     !.results = EventStoreGetEntityEvents(
                                     repo, id, after, until, limit,
                                     is_ascending, TRUE)]
    /\ UNCHANGED <<storeVars, agg, published, ex, chk>>

QueryNext ==
    \/ QueryAppend
    \/ \E id \in RacedEntities : Query(id)
    \/ \E id \in RacedEntities : PagedQuery(id)
    \/ \E id \in RacedEntities : ShortQuery(id)

QuerySpec == Init /\ [][QueryNext]_vars

(***************************************************************************)
(* Clients that hold aggregates: create, load, trigger events, discard and *)
(* save.  save() appends the pending events one by one through             *)
(* EventStore.append and then invokes the publish hook with the batch.     *)
(***************************************************************************)
\* uuid4(): an id that no aggregate has had.
FreshIds ==
    AggregateIds \ ({agg[c].state.id : c \in {x \in Clients : agg[x].state.live}}
                 \cup DOMAIN repo.entity_versions
                 \cup DOMAIN repo.by_stored_entity_id
                 \cup discards)

\* The events of the clients that are not stored yet.
RECURSIVE Unsaved(_)
Unsaved(cs) ==
    IF cs = {} THEN 0
    ELSE LET c == CHOOSE x \in cs : TRUE IN
         Len(agg[c].pending) - agg[c].pos + Unsaved(cs \ {c})

\* The clients have events left to create (calls counts the stored ones).
EventsLeft == calls + Unsaved(Clients) < MaxEvents

CanTrigger(c) ==
    /\ agg[c].state.live
    /\ EventsLeft
    /\ ~agg[c].saving
    /\ agg[c].state.version <= MaxVersion

Create(c) ==
    /\ ~agg[c].saving
    /\ EventsLeft
    /\ \E id \in FreshIds : agg' = [agg EXCEPT ![c] = CreateAggregate(id)]
    /\ UNCHANGED <<storeVars, published, ex, chk, qry>>

\* The client takes the aggregate from the repository.
Load(c) ==
    /\ ~agg[c].saving
    /\ \E id \in AggregateIds :
          LET g == RepositoryGet(repo, id) IN
          /\ g.error = "none"
          /\ agg' = [agg EXCEPT ![c] = [NoAggregate EXCEPT !.state = g.state,
                                                        !.saved = g.state]]
    /\ UNCHANGED <<storeVars, published, ex, chk, qry>>

\* aggregate.foo = value
SetFoo(c) ==
    /\ CanTrigger(c)
    /\ \E value \in AttributeValues :
          agg' = [agg EXCEPT ![c] =
                     TriggerEvent(@, "AttributeChanged", "foo", value)]
    /\ UNCHANGED <<storeVars, published, ex, chk, qry>>

\* aggregate.create_new_example()
CreateNewExample(c) ==
    /\ CanTrigger(c)
    /\ agg' = [agg EXCEPT ![c] =
                   TriggerEvent(@, "ExampleCreated", "entity_id", "")]
    /\ UNCHANGED <<storeVars, published, ex, chk, qry>>

\* aggregate.discard()
Discard(c) ==
    /\ CanTrigger(c)
    /\ agg' = [agg EXCEPT ![c] = TriggerEvent(@, "Discarded", "", "")]
    /\ UNCHANGED <<storeVars, published, ex, chk, qry>>

\* save(), step 1: the pending events are the batch.
Save(c) ==
    /\ agg[c].state.live
    /\ ~agg[c].saving
    /\ agg[c].pending /= <<>>
    /\ agg' = [agg EXCEPT ![c].saving = TRUE, ![c].pos = 0,
                          ![c].error = "none"]
    /\ UNCHANGED <<storeVars, published, ex, chk, qry>>

\* The save of a after the append of its next batch event ended as l.
AfterAppend(a, l) ==
    IF l.exc /= "none"
    THEN [a EXCEPT !.saving = FALSE, !.pos = 0, !.error = l.exc]
    ELSE [a EXCEPT !.pos = @ + 1]

\* save(), step 2: the next event of the batch is appended; on
\* ConcurrencyError the save is aborted and the pending events are kept.
\* (The uuid1 of a rejected event is stored nowhere, so the clock is only
\* advanced for an accepted one.)
SaveAppend(c) ==
    /\ agg[c].saving
    /\ agg[c].pos < Len(agg[c].pending)
    /\ LET n == AppendCall(repo, agg[c].pending[agg[c].pos + 1], calls + 1) IN
          /\ repo' = n.r
          /\ discards' = DiscardsAfter(n.l)
          /\ agg' = [agg EXCEPT ![c] = AfterAppend(@, n.l)]
          /\ calls' = IF n.l.exc = "none" THEN calls + 1 ELSE calls
    /\ UNCHANGED <<loc, rd, published, ex, chk, qry>>

\* save(), step 3: every event of the batch is stored; the publish hook is
\* invoked with the batch.
SavePublish(c) ==
    /\ agg[c].saving
    /\ agg[c].pos = Len(agg[c].pending)
    /\ published' = Append(published, agg[c].pending)
    /\ agg' = [agg EXCEPT ![c].saving = FALSE, ![c].pos = 0,
                          ![c].pending = <<>>, ![c].saved = agg[c].state]
    /\ UNCHANGED <<storeVars, ex, chk, qry>>

AggNext ==
    \E c \in Clients :
        \/ Create(c)
        \/ Load(c)
        \/ SetFoo(c)
        \/ CreateNewExample(c)
        \/ Discard(c)
        \/ Save(c)
        \/ SaveAppend(c)
        \/ SavePublish(c)

AggSpec == Init /\ [][AggNext]_vars

(***************************************************************************)
(* Events applied to, and hash-checked against, the in-memory aggregates:  *)
(* the clients build aggregates by triggering events, and events with a    *)
(* right or a damaged previous_hash, or with a field altered after         *)
(* construction, are offered to them.                                      *)
(***************************************************************************)
Damage(hash) == Append(hash, "damage")

\* The payloads of the events offered to an aggregate.
OfferedPayloads ==
    {<<"AttributeChanged", "foo", value>> : value \in AttributeValues}
        \cup {<<"ExampleCreated", "entity_id", "">>, <<"Discarded", "", "">>}

\* The event e with one of its fields overwritten, its hash not recomputed.
Tamper(e, field) ==
    CASE field = "none" -> e
      [] field = "event_hash" -> [e EXCEPT !.event_hash = Damage(@)]
      [] field = "previous_hash" -> [e EXCEPT !.previous_hash = Damage(@)]
      [] field = "value" -> [e EXCEPT !.value = "damage"]
      [] field = "name" -> [e EXCEPT !.name = "damage"]
      [] field = "topic" -> [e EXCEPT !.topic = "Damaged"]
      [] field = "originator_id" -> [e EXCEPT !.originator_id = "damage"]
      [] field = "originator_version" ->
             [e EXCEPT !.originator_version = @ + 1]

TamperedFields ==
    {"none", "event_hash", "previous_hash", "value", "name", "topic",
     "originator_id", "originator_version"}

\* An event built on the aggregate's head hash, or on a damaged one, is
\* applied to the aggregate of client c.
ApplyOffered(c) ==
    /\ agg[c].state.live
    /\ ~agg[c].state.is_discarded
    /\ agg[c].state.version <= MaxVersion
    /\ \E payload \in OfferedPayloads, damaged \in BOOLEAN :
          LET state == agg[c].state
              e == DomainEvent(state.id, state.version, payload[1],
                               payload[2], payload[3],
                               IF damaged THEN Damage(state.head_hash)
                               ELSE state.head_hash)
              m == Mutate(e, state)
          IN /\ chk' = [kind |-> "apply", event |-> e,
                        tampered |-> IF damaged THEN "previous_hash"
                                     ELSE "none",
                        before |-> state, after |-> m.state,
                        error |-> m.error]
             /\ agg' = [agg EXCEPT ![c].state = m.state]
    /\ UNCHANGED <<storeVars, published, ex, qry>>

\* check_hash is called on a pending event of client c, as constructed or
\* with one field altered.
CheckOffered(c) ==
    /\ agg[c].pending /= <<>>
    /\ \E i \in 1..Len(agg[c].pending), field \in TamperedFields :
          LET e == Tamper(agg[c].pending[i], field) IN
          chk' = [kind |-> "check_hash", event |-> e, tampered |-> field,
                  before |-> agg[c].state, after |-> agg[c].state,
                  error |-> IF CheckHash(e) THEN "none"
                            ELSE "EventHashError"]
    /\ UNCHANGED <<storeVars, agg, published, ex, qry>>

HashNext ==
    \E c \in Clients :
        \/ Create(c)
        \/ SetFoo(c)
        \/ CreateNewExample(c)
        \/ Discard(c)
        \/ ApplyOffered(c)
        \/ CheckOffered(c)

HashSpec == Init /\ [][HashNext]_vars

(***************************************************************************)
(* Clients that hold Example entities.  The entity's operations apply      *)
(* their events and call publish; the persistence subscriber of the hook   *)
(* then appends the events through EventStore.append.                      *)
(***************************************************************************)
ExFreshIds ==
    AggregateIds \ ({ex[c].id : c \in {x \in Clients : ex[x].live}}
                    \cup DOMAIN repo.by_stored_entity_id)

ExCreate(c) ==
    /\ ex[c].pc = "idle"
    /\ \E id \in ExFreshIds, foo \in AttributeValues :
          ex' = [ex EXCEPT ![c] = create_new_example(id, foo)]
    /\ UNCHANGED <<storeVars, agg, published, chk, qry>>

\* The values of number_of_beats, and the calls made so far whose batch of
\* events is empty.
BeatCounts == (0 - 1)..MaxBeats

EmptyBeats ==
    Cardinality({i \in 1..Len(published) : published[i] = <<>>})
    + Cardinality({c \in Clients :
                      ex[c].pc = "publish" /\ ex[c].events = <<>>})

\* entity.beat_heart(number_of_beats) with number_of_beats from counts.
BeatHeartCall(c, counts) ==
    /\ ex[c].pc = "idle"
    /\ ex[c].live
    /\ \E number_of_beats \in counts :
          /\ \/ ex[c].is_discarded
             \/ number_of_beats <= 0 /\ EmptyBeats < MaxEmptyBeats
             \/ /\ number_of_beats > 0
                /\ ex[c].version + number_of_beats - 1 <= MaxVersion
          /\ ex' = [ex EXCEPT ![c] = beat_heart(@, number_of_beats)]
    /\ UNCHANGED <<storeVars, agg, published, chk, qry>>

ExBeatHeart(c) == BeatHeartCall(c, 1..MaxBeats)

ExPublish(c) ==
    /\ ex[c].pc = "publish"
    /\ LET p == publish(repo, published, ex[c]) IN
          /\ repo' = p.r
          /\ published' = p.published
          /\ ex' = [ex EXCEPT ![c] = p.x]
    /\ UNCHANGED <<loc, calls, discards, rd, agg, chk, qry>>

ExPersist(c) ==
    /\ ex[c].pc = "policy"
    /\ LET p == PolicyStore(repo, ex[c], calls + 1) IN
          /\ repo' = p.r
          /\ ex' = [ex EXCEPT ![c] = p.x]
          /\ discards' = IF /\ p.x.error = "none"
                            /\ IsDiscarded(Head(ex[c].queue).topic)
                         THEN discards \cup {ex[c].id} ELSE discards
    /\ calls' = calls + 1
    /\ UNCHANGED <<loc, rd, agg, published, chk, qry>>

ExDiscard(c) ==
    /\ ex[c].pc = "idle"
    /\ ex[c].live
    /\ ex[c].version <= MaxVersion
    /\ ex' = [ex EXCEPT ![c] = discard_example(@)]
    /\ UNCHANGED <<storeVars, agg, published, chk, qry>>

\* The client takes the entity as its stored events give it.
ExLoad(c) ==
    /\ ex[c].pc = "idle"
    /\ \E id \in AggregateIds :
          /\ ExampleGet(repo, id).live
          /\ ex' = [ex EXCEPT ![c] = ExampleGet(repo, id)]
    /\ UNCHANGED <<storeVars, agg, published, chk, qry>>

ExNext ==
    \E c \in Clients :
        \/ ExCreate(c)
        \/ ExBeatHeart(c)
        \/ ExPublish(c)
        \/ ExPersist(c)
        \/ ExDiscard(c)
        \/ ExLoad(c)

ExSpec == Init /\ [][ExNext]_vars

(***************************************************************************)
(* One client that holds an Example entity and calls beat_heart with every *)
(* number_of_beats, zero and negative numbers included.                    *)
(***************************************************************************)
BeatClients == {"c1"}

ExBeatHeartAny(c) == BeatHeartCall(c, BeatCounts)

BeatNext ==
    \E c \in BeatClients :
        \/ ExCreate(c)
        \/ ExBeatHeartAny(c)
        \/ ExPublish(c)
        \/ ExPersist(c)
        \/ ExDiscard(c)
        \/ ExLoad(c)

BeatSpec == Init /\ [][BeatNext]_vars

(***************************************************************************)
(* Properties of the event store.                                          *)
(***************************************************************************)
Range(s) == {s[i] : i \in 1..Len(s)}

\* versions 0, 1, ..., n-1 in that order
Contiguous(versions) == \A i \in 1..Len(versions) : versions[i] = i - 1

StoredVersions(r, id) == VersionsOf(ReadEvents(r, id))

\* The frames hold every call made so far: no caller has returned yet.
AllCallsInFrames == calls = Cardinality({w \in Writers : loc[w].pc /= "idle"})

\* C1: when two writers each call EventStore.append with an event (not a
\* Discarded one, and no entity has been discarded) of the same entity and
\* the same version v, which follows the stored versions (v is 0 or v - 1
\* is stored), then once both calls have ended exactly one has succeeded,
\* the other has raised ConcurrencyError, and the entity's list holds
\* exactly one event at position v.
C1_ExactlyOneWriterWins ==
    \A w1, w2 \in Writers :
        ( /\ w1 /= w2
          /\ Finished(loc[w1]) /\ Finished(loc[w2])
          /\ loc[w1].event.stored_entity_id = loc[w2].event.stored_entity_id
          /\ loc[w1].new_version = loc[w2].new_version
          /\ ~IsDiscarded(loc[w1].event.event_topic)
          /\ ~IsDiscarded(loc[w2].event.event_topic)
          /\ discards = {}
          /\ AllCallsInFrames
          /\ \/ loc[w1].new_version = 0
             \/ (loc[w1].new_version - 1) \in
                    Range(StoredVersions(repo, loc[w1].event.stored_entity_id)) )
        => LET id == loc[w1].event.stored_entity_id
               v == loc[w1].new_version
               stored == StoredVersions(repo, id)
           IN /\ \/ loc[w1].pc = "done" /\ loc[w2].exc = "ConcurrencyError"
                 \/ loc[w2].pc = "done" /\ loc[w1].exc = "ConcurrencyError"
              /\ Cardinality({i \in 1..Len(stored) : stored[i] = v}) = 1

\* C2: after a Discarded event of an entity has been accepted, every later
\* append for that entity raises ConcurrencyError, whatever its version.
C2_DiscardIsTerminal ==
    [][\A w \in Writers :
          (loc'[w] /= loc[w]
           /\ loc'[w].event.stored_entity_id \in discards)
          => loc'[w].exc = "ConcurrencyError"]_vars

\* C3: after any sequence of successful and failed appends, the events read
\* for any entity have the versions 0, 1, ..., n-1 in that order.
C3_VersionsContiguous ==
    /\ Contiguous(VersionsOf(rd.events))
    /\ \A id \in Entities : Contiguous(StoredVersions(repo, id))

\* C3 witness: a read has returned two events after a failed append.
C3_Witness ==
    /\ Len(rd.events) = 2
    /\ rd.events = ReadEvents(repo, rd.id)
    /\ \E w \in Writers : loc[w].exc = "ConcurrencyError"

\* The append of version v to an entity whose stored versions are `stored`
\* leaves a gap (v - 1 is not stored) or repeats a stored version.
GapOrRepeat(v, stored) ==
    (v > 0 /\ (v - 1) \notin Range(stored)) \/ v \in Range(stored)

\* C4: an append of version v > 0 to an entity whose version v - 1 is not
\* stored, or of a version that is already stored, raises ConcurrencyError
\* and adds no event.
C4_GapOrRepeatRejected ==
    [][\A w \in Writers :
          (loc'[w] /= loc[w]
           /\ GapOrRepeat(loc'[w].new_version,
                          StoredVersions(repo, loc'[w].event.stored_entity_id)))
          => /\ loc'[w].exc = "ConcurrencyError"
             /\ repo'.by_stored_entity_id = repo.by_stored_entity_id]_vars

\* C4 witness: one call has been rejected for a gap and another for a
\* version that is stored.
C4_Witness ==
    \E w1, w2 \in Writers :
        /\ loc[w1].exc = "ConcurrencyError"
        /\ loc[w1].new_version > 0
        /\ (loc[w1].new_version - 1) \notin
               Range(StoredVersions(repo, loc[w1].event.stored_entity_id))
        /\ loc[w2].exc = "ConcurrencyError"
        /\ loc[w2].new_version \in
               Range(StoredVersions(repo, loc[w2].event.stored_entity_id))

\* The call has passed the version check: its version is admitted.
Admitted(l) ==
    l.pc \in {"index_check", "index_new", "index_append", "index_by_id", "done"}

\* C5: while writers append different versions of one entity concurrently
\* (no Discarded event, every version admitted by the version check), a read
\* returns the events in ascending order of version as a gap-free prefix
\* 0..k-1.
C5_ReadersSeeAPrefix ==
    ( /\ AllCallsInFrames
      /\ discards = {}
      /\ \A w \in Writers :
            loc[w].pc /= "idle"
            => Admitted(loc[w]) /\ ~IsDiscarded(loc[w].event.event_topic)
      /\ \A w1, w2 \in Writers :
            (w1 /= w2 /\ loc[w1].pc /= "idle" /\ loc[w2].pc /= "idle")
            => loc[w1].new_version /= loc[w2].new_version
      /\ rd.events = ReadEvents(repo, rd.id) )
    => Contiguous(VersionsOf(rd.events))

\* C6: after a Discarded event of an entity has been accepted, every read
\* of that entity returns no events.
C6_NoEventsAfterDiscard ==
    /\ \A id \in discards : ReadEvents(repo, id) = <<>>
    /\ rd.id \in discards => rd.events = <<>>

(***************************************************************************)
(* Publishing, saving and rehydration.                                     *)
(***************************************************************************)
PublishedEvents == UNION {Range(published[i]) : i \in 1..Len(published)}
StoredEvents(id) == Range(ReadEvents(repo, id))

C9_RehydrateIsLeftFold ==
    [][\A c \in Clients :
          LET a == agg[c]
              b == agg'[c]
              id == agg[c].state.id
              g == RepositoryGet(repo', id)
          IN (/\ a.saving /\ b.saving
              /\ b.pos = a.pos + 1
              /\ b.pos = Len(b.pending)
              /\ ~b.state.is_discarded) =>
                 /\ g.error = "none"
                 /\ g.state.version = b.state.version
                 /\ g.state.foo = b.state.foo
                 /\ g.state.examples = b.state.examples
                 /\ g.state.head_hash = b.state.head_hash
                 /\ g.state = b.state
                 /\ g = FoldEvents(ReadEvents(repo', id), 1, NoState)
      ]_vars

\* A batch of a Created event and attribute changes has been accepted and
\* the repository returns the aggregate with the last value set.
C9_Witness ==
    \E c \in Clients :
        /\ agg[c].saving
        /\ agg[c].pos = Len(agg[c].pending)
        /\ Len(agg[c].pending) >= 2
        /\ agg[c].state.foo = "bar"
        /\ RepositoryGet(repo, agg[c].state.id) =
               [error |-> "none", state |-> agg[c].state]

\* C10: events triggered and not yet saved are invisible to the repository:
\* a new aggregate is not contained before its first save, and between a
\* trigger and the next save the repository returns the state of the last
\* save (as long as no other client has saved since).
C10_UnsavedEventsInvisible ==
    \A c \in Clients :
        LET a == agg[c]
            id == agg[c].state.id
        IN (/\ a.state.live /\ ~a.saving
            /\ a.error = "none"
            /\ a.pending /= <<>>) =>
               IF ~a.saved.live
               THEN ~RepositoryContains(repo, id)
               ELSE Len(ReadEvents(repo, id)) = a.saved.version =>
                        RepositoryGet(repo, id) =
                            [error |-> "none", state |-> a.saved]

\* An aggregate saved before has an unsaved attribute change, and the
\* repository still returns the old value.
C10_Witness ==
    \E c \in Clients :
        /\ agg[c].state.live /\ ~agg[c].saving
        /\ agg[c].error = "none"
        /\ agg[c].pending /= <<>>
        /\ agg[c].saved.live
        /\ agg[c].saved.version >= 2
        /\ RepositoryGet(repo, agg[c].state.id).state = agg[c].saved
        /\ agg[c].saved.foo /= agg[c].state.foo

\* C11: once an entity has applied a Discarded event, every further
\* mutating call on the in-memory copy is rejected with an error (an
\* AssertionError), changes neither its version nor its state, and
\* publishes nothing.  (A client that takes a new copy from the stored
\* events makes no call on the discarded copy.)
C11_DiscardedCopyRejectsCalls ==
    [][\A c \in Clients :
          (/\ ex[c].is_discarded /\ ex[c].pc = "idle"
           /\ ex'[c] /= ex[c]
           /\ ~(ex'[c] = ExampleGet(repo, ex[c].id))) =>
              /\ ex'[c] = [ex[c] EXCEPT !.error = "AssertionError"]
              /\ published' = published
              /\ repo' = repo
      ]_vars

\* beat_heart has been called on a discarded entity whose Discarded event
\* is stored and published.
C11_Witness ==
    \E c \in Clients :
        /\ ex[c].is_discarded /\ ex[c].pc = "idle"
        /\ ex[c].error = "AssertionError"
        /\ ex[c].id \in discards
        /\ \E e \in PublishedEvents : e.topic = "Discarded"

\* C12: applying (or checking) an event against an aggregate whose head
\* hash differs from the event's previous_hash fails with HeadHashError and
\* leaves the aggregate's version, head hash and attributes unchanged; when
\* they are equal the check passes and the event is applied.
C12_HeadHashChecked ==
    chk.kind = "apply" =>
        IF chk.event.previous_hash /= chk.before.head_hash
        THEN /\ chk.error = "HeadHashError"
             /\ chk.after = chk.before
        ELSE /\ chk.error = "none"
             /\ chk.after.version = chk.before.version + 1
             /\ chk.after.head_hash = chk.event.event_hash

\* An event with a damaged previous_hash has been offered to an aggregate
\* that has applied two events.
C12_Witness ==
    /\ chk.kind = "apply"
    /\ chk.error = "HeadHashError"
    /\ chk.before.version >= 2
    /\ chk.event.previous_hash /= chk.before.head_hash

\* Stored events and pending events are chained, and an aggregate with
\* pending events has the hash of the last of them as its head.
HashesChained ==
    /\ \A id \in AggregateIds :
          LET events == ReadEvents(repo, id) IN
          \A i \in 2..Len(events) :
              /\ events[i].topic /= "Created"
              /\ events[i].previous_hash = events[i - 1].event_hash
    /\ \A c \in Clients :
          LET a == agg[c]
              n == Len(agg[c].pending)
          IN a.state.live =>
                /\ \A i \in 2..n :
                      a.pending[i].previous_hash = a.pending[i - 1].event_hash
                /\ n > 0 =>
                      /\ a.state.head_hash = a.pending[n].event_hash
                      /\ a.pending[n].event_hash /= a.pending[n].previous_hash

\* A step that applies an event (a trigger), or that takes the aggregate
\* from the repository, leaves the hash of the last applied event as head.
HeadFollowsApplied ==
    \A c \in Clients :
        LET a == agg[c]
            b == agg'[c]
            events == ReadEvents(repo, b.state.id)
        IN /\ (b.state.live /\ Len(b.pending) > Len(a.pending)) =>
                 /\ b.state.head_hash = b.pending[Len(b.pending)].event_hash
                 /\ b.state.head_hash /= a.state.head_hash
           /\ (/\ b /= a /\ ~a.saving /\ b.state.live
               /\ b.pending = <<>> /\ b.error = "none") =>
                 /\ events /= <<>>
                 /\ b.state.head_hash = events[Len(events)].event_hash

\* C13: each stored non-creation event's previous_hash equals the
\* event_hash of the stored event at the preceding version, and an
\* aggregate's head hash is the event_hash of the event it applied last, so
\* that it changes with every applied event.
C13_HashChain == []HashesChained /\ [][HeadFollowsApplied]_vars

\* Chained events are stored and a client holds a further pending one.
C13_Witness ==
    \E c \in Clients :
        /\ Len(ReadEvents(repo, agg[c].state.id)) >= 2
        /\ agg[c].state.live
        /\ Len(agg[c].pending) = 1
        /\ agg[c].state.version = 3

\* C14: check_hash passes for every event as constructed, and fails with
\* EventHashError whenever the event's event_hash or any hashed field has
\* been altered after construction without recomputing the hash.
C14_CheckHashDetectsTampering ==
    chk.kind = "check_hash" =>
        /\ chk.tampered = "none" => chk.error = "none"
        /\ chk.tampered /= "none" => chk.error = "EventHashError"

\* The value of a chained event has been altered and check_hash was called.
C14_Witness ==
    /\ chk.kind = "check_hash"
    /\ chk.tampered = "value"
    /\ chk.event.originator_version >= 1
    /\ chk.error = "EventHashError"

(***************************************************************************)
(* Queries.  The position of a stored event is the timestamp of its uuid1  *)
(* event id, and the bounds of a query are such timestamps.                *)
(***************************************************************************)
Position(event) == timestamp_from_uuid(event.event_id)

Min(a, b) == IF a <= b THEN a ELSE b

\* The first limit elements of s (all of them without a limit).
Truncated(s, limit) ==
    IF limit = None THEN s ELSE SubSeq(s, 1, Min(limit, Len(s)))

\* The stored events with after < position <= until, in stored order.
SelectedAscending(q) ==
    LET Test(e) == /\ q.after = None \/ q.after < Position(e)
                   /\ q.until = None \/ Position(e) <= q.until
    IN SelectSeq(q.stored, Test)

Ascending(s) == \A i \in 1..(Len(s) - 1) : Position(s[i]) < Position(s[i + 1])
Descending(s) == \A i \in 1..(Len(s) - 1) : Position(s[i]) > Position(s[i + 1])

\* C15: an ascending read with bounds after, until and limit returns
\* exactly the stored events whose position p satisfies after < p <= until
\* (a missing bound imposes no restriction), in ascending position order,
\* truncated to the first limit of them.
C15_AscendingRead ==
    (qry.kind = "repo" /\ qry.query_ascending /\ qry.results_ascending) =>
        /\ qry.results = Truncated(SelectedAscending(qry), qry.limit)
        /\ Ascending(qry.results)

\* An ascending read whose bounds and limit each cut events off.
C15_Witness ==
    /\ qry.kind = "repo" /\ qry.query_ascending /\ qry.results_ascending
    /\ Len(qry.stored) = 3
    /\ qry.after = Position(qry.stored[1])
    /\ qry.until = Position(qry.stored[3])
    /\ qry.limit = 1
    /\ qry.results = <<qry.stored[2]>>

C17_AppendPassesVersions ==
    [][\A w \in Writers :
          LET l == loc'[w]
              version == loc'[w].event.event_attrs.entity_version
          IN loc'[w] /= loc[w] =>
                /\ l.new_version = version
                /\ version >= 1 => l.expected_version = version - 1
                /\ version = 0 => l.expected_version = None
                /\ l.exc \in {"none", "ConcurrencyError"}
                /\ l.exc = "ConcurrencyError" =>
                      /\ l.pc = "raised"
                      /\ repo'.by_stored_entity_id = repo.by_stored_entity_id
                      /\ repo'.by_id = repo.by_id
                /\ l.exc = "none" => l.pc = "done"
      ]_vars

\* Appends of version 0 and of a later version have returned, and one was
\* rejected with ConcurrencyError.
C17_Witness ==
    /\ loc["w1"].pc = "done" /\ loc["w1"].new_version = 0
    /\ loc["w1"].expected_version = None
    /\ loc["w2"].pc = "raised" /\ loc["w2"].exc = "ConcurrencyError"
    /\ loc["w2"].new_version = 2 /\ loc["w2"].expected_version = 1

\* What the repository holds about one entity: its list of stored events,
\* their entries in the index by event id, and its dictionary of versions.
Holdings(r, id) ==
    [events |-> IF id \in DOMAIN r.by_stored_entity_id
                THEN <<r.by_stored_entity_id[id]>> ELSE <<>>,
     indexed |-> IF id \in DOMAIN r.by_stored_entity_id
                 THEN {r.by_stored_entity_id[id][i].event_id :
                          i \in 1..Len(r.by_stored_entity_id[id])} \cap r.by_id
                 ELSE {},
     versions |-> IF id \in DOMAIN r.entity_versions
                  THEN <<[v \in DOMAIN r.dicts[r.entity_versions[id]] |->
                             r.iters[r.dicts[r.entity_versions[id]][v]]]>>
                  ELSE <<>>]

\* C18: a call of EventStore.append for an event of one entity (an ordinary
\* event or a Discarded event) leaves the stored events, the version
\* bookkeeping and the events read back of every other entity unchanged.
C18_OtherEntitiesUntouched ==
    [][\A w \in Writers :
          loc'[w] /= loc[w] =>
              \A o \in Entities \ {loc'[w].event.stored_entity_id} :
                  /\ Holdings(repo', o) = Holdings(repo, o)
                  /\ ReadEvents(repo', o) = ReadEvents(repo, o)]_vars

\* One entity has been discarded and removed while the other entity still
\* has its stored event and its version entry.
C18_Witness ==
    /\ "e1" \in discards
    /\ "e1" \notin DOMAIN repo.by_stored_entity_id
    /\ "e2" \in DOMAIN repo.by_stored_entity_id
    /\ "e2" \in DOMAIN repo.entity_versions
    /\ Len(ReadEvents(repo, "e2")) = 1

\* C20: the record manager's get_entity_events returns the selected events
\* in the order named by results_ascending, for every combination of
\* query_ascending and results_ascending and every number of matching
\* events: ascending by position when results_ascending is true, descending
\* when it is false.
C20_ResultsOrdered ==
    qry.kind = "repo" =>
        IF qry.results_ascending
        THEN Ascending(qry.results)
        ELSE Descending(qry.results)

\* C19: for every page_size >= 1 and every stored history,
\* EventStore.get_entity_events with page_size set yields the same events in
\* the same order as the read without page_size for the same after, until,
\* limit and direction.
C19_PagedReadEqualsUnpaged ==
    qry.kind = "paged" =>
        qry.results =
            EventStoreGetEntityEvents(repo, qry.id, qry.after, qry.until,
                                      qry.limit, qry.query_ascending, FALSE)

\* A descending read of three stored events in pages of one, ended by a
\* limit of two after the second page.
C19_Witness ==
    /\ qry.kind = "paged" /\ ~qry.query_ascending
    /\ qry.page_size = 1 /\ qry.limit = 2
    /\ qry.after = None /\ qry.until = None
    /\ Len(qry.stored) = 3
    /\ qry.results = MapDeserialize(<<qry.stored[3], qry.stored[2]>>)

\* A step in which beat_heart has run its loop on the live copy of client c.
BeatHeartDone(c) ==
    /\ ex[c].pc = "idle" /\ ex[c].live /\ ~ex[c].is_discarded
    /\ ex'[c].pc = "publish"
    /\ \A i \in 1..Len(ex'[c].events) : ex'[c].events[i].topic = "Heartbeat"

\* A step in which events were applied to the copy of client c changes its
\* version by the number of those events (from 0 when the copy is created).
VersionCountsEvents(c) ==
    (ex'[c].pc = "publish" /\ ex[c].pc = "idle") =>
        LET events == ex'[c].events
            before == IF events /= <<>> /\ events[1].topic = "Created"
                      THEN 0 ELSE ex[c].version
        IN ex'[c].version = before + Len(events)

\* C21: an entity's version equals the number of events applied to it:
\* beat_heart(n) with n >= 1 on a live entity at version v creates n
\* Heartbeat events carrying versions v, v+1, ..., v+n-1 and leaves the
\* entity at version v+n with its heartbeat count increased by n, and
\* beat_heart(n) with n <= 0 creates no event and changes neither.
C21_VersionCountsEvents ==
    [][\A c \in Clients :
          /\ VersionCountsEvents(c)
          /\ BeatHeartDone(c) =>
                 \A n \in BeatCounts :
                     ex'[c] = beat_heart(ex[c], n) =>
                         LET events == ex'[c].events
                             beats == IF n > 0 THEN n ELSE 0
                         IN /\ Len(events) = beats
                            /\ \A i \in 1..beats :
                                   /\ events[i].originator_version =
                                          ex[c].version + i - 1
                                   /\ events[i].originator_id = ex[c].id
                            /\ ex'[c].version = ex[c].version + beats
                            /\ ex'[c].count_heartbeats =
                                   ex[c].count_heartbeats + beats
                            /\ ex'[c].foo = ex[c].foo
                            /\ ~ex'[c].is_discarded]_vars

\* An entity created at version 1 after beat_heart(2): version 3, two beats,
\* and the two events about to be published carry versions 1 and 2.
C21_Witness ==
    \E c \in Clients :
        /\ ex[c].pc = "publish" /\ ex[c].version = 3
        /\ ex[c].count_heartbeats = 2
        /\ Len(ex[c].events) = 2
        /\ ex[c].events[1].originator_version = 1
        /\ ex[c].events[2].originator_version = 2

\* C22: with limit unset, EventStore.get_entity_events with is_short set
\* (and no page_size) returns the same sequence of events, in ascending
\* position order, as the non-short ascending read with the same after and
\* until bounds.
C22_ShortReadEqualsAscending ==
    (qry.kind = "short" /\ qry.limit = None) =>
        qry.results =
            EventStoreGetEntityEvents(repo, qry.id, qry.after, qry.until,
                                      None, TRUE, FALSE)

\* The versions of entity id whose iterator has been advanced; an entity
\* without a dictionary of versions gets an empty one at its next append.
TakenVersions(r, id) ==
    IF id \notin DOMAIN r.entity_versions THEN {}
    ELSE LET d == r.dicts[r.entity_versions[id]]
         IN {v \in DOMAIN d : r.iters[d[v]]}

KnownVersions(r, id) ==
    IF id \notin DOMAIN r.entity_versions THEN {}
    ELSE DOMAIN r.dicts[r.entity_versions[id]]

\* What reads and appends depend on in the store r: the events read for
\* every entity, the events held by the record manager, and the versions
\* known and taken.
Observed(r) ==
    [reads |-> [id \in Entities |-> ReadEvents(r, id)],
     stored |-> [id \in Entities |-> StoredList(r, id)],
     by_id |-> r.by_id,
     known |-> [id \in Entities |-> KnownVersions(r, id)],
     taken |-> [id \in Entities |-> TakenVersions(r, id)]]

\* Whether the store r accepts an event of entity id at version: it depends
\* on the versions known and taken only.
Acceptable(r, id, version) ==
    /\ version = 0 \/ (version - 1) \in KnownVersions(r, id)
    /\ version \notin TakenVersions(r, id)

\* C23: an append that raises ConcurrencyError (the append of a Discarded
\* event with a stale or gapped version included) changes nothing
\* observable: every later read returns the same events as before, nothing
\* is removed, and every later append is accepted or rejected exactly as it
\* would have been without the failed attempt (an append is rejected or
\* accepted by the versions known and taken, which the failed attempt
\* leaves as they were).
C23_FailedAppendChangesNothing ==
    [][\A w \in Writers :
          loc'[w] /= loc[w] =>
              LET id == loc'[w].event.stored_entity_id
                  version == loc'[w].new_version
              IN IF Acceptable(repo, id, version)
                 THEN loc'[w].pc = "done" /\ loc'[w].exc = "none"
                 ELSE /\ loc'[w].exc = "ConcurrencyError"
                      /\ repo' = repo \/ Observed(repo') = Observed(repo)]_vars

\* The append of a Discarded event with a gapped version has been rejected,
\* and the entity's stored event is still read.
C23_Witness ==
    \E w \in Writers :
        /\ loc[w].exc = "ConcurrencyError"
        /\ IsDiscarded(loc[w].event.event_topic)
        /\ loc[w].new_version = 2
        /\ Len(ReadEvents(repo, loc[w].event.stored_entity_id)) = 1

\* The batch holds events of the entity x that x has applied: their
\* versions are consecutive and end one below the version of x.
AppliedBatch(x, batch) ==
    \A i \in 1..Len(batch) :
        /\ batch[i].originator_id = x.id
        /\ batch[i].originator_version = x.version - Len(batch) + i - 1

\* C24: beat_heart(n) calls publish exactly once, after all n Heartbeat
\* events have been applied to the entity, with a batch holding exactly
\* those n events in ascending version order; create_new_example publishes
\* its Created event only after the entity has been built from it.
C24_PublishOnceAfterApply ==
    [][\A c \in Clients :
          \* the operation has made its events and has not yet published
          /\ (ex[c].pc = "idle" /\ ex'[c].pc = "publish") =>
                 /\ published' = published
                 /\ AppliedBatch(ex'[c], ex'[c].events)
                 /\ \A n \in 1..MaxBeats :
                        (ex[c].live /\ ex'[c] = beat_heart(ex[c], n)) =>
                            /\ Len(ex'[c].events) = n
                            /\ \A i \in 1..n :
                                   ex'[c].events[i].topic = "Heartbeat"
          \* the one call of publish hands over that batch
          /\ (ex[c].pc = "publish" /\ ex'[c] /= ex[c]) =>
                 /\ published' = Append(published, ex[c].events)
                 /\ ex'[c].pc /= "publish"
                 /\ ex'[c].version = ex[c].version
                 /\ ex'[c].count_heartbeats = ex[c].count_heartbeats
                 /\ AppliedBatch(ex[c], ex[c].events)
                 /\ (ex[c].events /= <<>>
                     /\ ex[c].events[1].topic = "Created") =>
                        /\ ex[c].live /\ ex[c].version = 1
                        /\ ex[c].id = ex[c].events[1].originator_id
                        /\ ex[c].foo = ex[c].events[1].value
          \* and nothing is published in any other step
          /\ (published' /= published) =>
                 \E d \in Clients : ex[d].pc = "publish" /\ ex'[d] /= ex[d]]_vars

\* beat_heart(2) has published its two Heartbeat events as one batch, the
\* second batch after the Created event, and the entity is at version 3.
C24_Witness ==
    \E c \in Clients :
        /\ ex[c].pc /= "publish" /\ ex[c].version = 3
        /\ Len(published) = 2
        /\ Len(published[2]) = 2
        /\ published[2][1].topic = "Heartbeat"
        /\ published[2][1].originator_version = 1
        /\ published[2][2].originator_version = 2

====
